---- MODULE Spec2Model ----
(***************************************************************************)
(* A model of kleanup.py: the directory scan (get_directory_info with its  *)
(* rollup re-walk), the grouping (summarize_directories), the numbered     *)
(* listing (list_directory_info) and the interactive flow of main() from   *)
(* the date prompt to the removal of filelist.txt.                         *)
(*                                                                         *)
(* A path string is modelled by the sequence path.split("/") of its        *)
(* segments: "/root/" is <<"", "root", "">>, "/root/a" is                  *)
(* <<"", "root", "a">> and the empty string is <<"">>.                     *)
(***************************************************************************)
EXTENDS Integers, Sequences, FiniteSets, TLC

VARIABLES
    fs,                 \* the filesystem: file id -> [kind, size, time]
    listRev,            \* scandir lists directory entries in reverse order
    pc,                 \* where main() stands
    outcome,            \* how the run ended ("" while it runs)
    start_date,         \* main: start_date
    dir_info,           \* get_directory_info: dir_info of the latest scan
    priority_files,     \* main: priority_files
    non_priority_files, \* main: non_priority_files
    new_dirs,           \* main: new_dirs
    additional_dirs,    \* main: additional_dirs
    shown,              \* the numbered lines list_directory_info printed last
    action,             \* main: action, lower-cased     (these three hold the
    sel_word,           \* NONE, ALL or integers typed    answers of the pass
    selected_dirs,      \* main: selected_dirs, parsed    until main moves on)
    final_dirs,         \* main: final_dirs
    final_prio,         \* history: final_dirs as the priority pass left it
    phase2,             \* the additional pass has been resolved
    total_size,         \* main: total_size
    space_checked,      \* check_disk_space has been called
    has_space,          \* main: has_space
    free_space,         \* main: free_space
    password_asked,     \* the password prompt was shown
    manifest,           \* the lines written to filelist.txt
    manifest_written,   \* history: filelist.txt was created in this run
    manifest_on_disk,   \* filelist.txt exists
    archiver_spawned,   \* subprocess.run started 7z
    returncode          \* result.returncode

vars == <<fs, listRev, pc, outcome, start_date, dir_info, priority_files,
          non_priority_files, new_dirs, additional_dirs, shown, action,
          sel_word, selected_dirs, final_dirs, final_prio, phase2,
          total_size, space_checked, has_space, free_space, password_asked,
          manifest, manifest_written, manifest_on_disk, archiver_spawned,
          returncode>>

----------------------------------------------------------------------------
(* Bounds of the model *)

\* the start dates the operator may enter are 1..MaxDate; file times are 0, 1
MaxDate == 1
\* the index prompt is answered with at most MaxTokens tokens
MaxTokens == 2
\* the integers typed at the index prompt are 0..MaxIndex
MaxIndex == 3
\* disk_usage reports 0, FreeSmall or FreeLarge free bytes
FreeSmall == 8
FreeLarge == 64

----------------------------------------------------------------------------
(* Configuration (a part of the lists of the script) *)

PRIORITY_DIRECTORIES == << <<"", "root", "">> >>
TARGET_DIRECTORIES == << <<"", "root">> >>
EXCLUDED_DIRECTORIES == << <<"", "root", ".cache", "">> >>

----------------------------------------------------------------------------
(* The filesystem.  Directories and files are named by their segments      *)
(* below "/".  The tree is fixed; Init chooses the times of f, g, h, m and *)
(* whether /root/a/b/c/l (a symbolic link to /root/.cache/e) exists.       *)

DirEntries ==
    ( <<"root">> :> [dirs |-> <<".cache", "a">>, files |-> <<"f">>] ) @@
    ( <<"root", ".cache">> :> [dirs |-> <<"d">>, files |-> <<"e">>] ) @@
    ( <<"root", ".cache", "d">> :> [dirs |-> <<>>, files |-> <<"e2">>] ) @@
    ( <<"root", "a">> :> [dirs |-> <<"b", "k">>, files |-> <<>>] ) @@
    ( <<"root", "a", "b">> :> [dirs |-> <<"c">>, files |-> <<"g">>] ) @@
    ( <<"root", "a", "b", "c">> :> [dirs |-> <<>>, files |-> <<"h", "l">>] ) @@
    ( <<"root", "a", "k">> :> [dirs |-> <<>>, files |-> <<"m">>] )

F_f == <<"root", "f">>
F_e == <<"root", ".cache", "e">>
F_e2 == <<"root", ".cache", "d", "e2">>
F_g == <<"root", "a", "b", "g">>
F_h == <<"root", "a", "b", "c", "h">>
F_l == <<"root", "a", "b", "c", "l">>
F_m == <<"root", "a", "k", "m">>

FileIds == {F_f, F_e, F_e2, F_g, F_h, F_l, F_m}

\* where the symbolic link points
LinkTarget(f) == F_e

Absent == [kind |-> "absent", size |-> 0, time |-> 0]
Regular(s, t) == [kind |-> "file", size |-> s, time |-> t]
SymLink == [kind |-> "link", size |-> 0, time |-> 1]

FileSystems ==
    { ( F_f :> Regular(1, tf) ) @@ ( F_g :> Regular(2, tg) ) @@
      ( F_h :> Regular(4, th) ) @@ ( F_m :> Regular(8, tm) ) @@ ( F_l :> kl ) @@
      ( F_e :> Regular(16, 1) ) @@ ( F_e2 :> Regular(32, 1) ) :
        tf \in {0, 1}, tg \in {0, 1}, th \in {0, 1}, tm \in {0, 1},
        kl \in {Absent, SymLink} }

Reverse(s) == [i \in 1..Len(s) |-> s[Len(s) + 1 - i]]

\* the file a path string names: empty segments do not count
Phys(path) == SelectSeq(path, LAMBDA s : s # "")

\* os.scandir, as os.walk uses it: the subdirectories and the other entries
ListDirs(d) == IF listRev THEN Reverse(DirEntries[d].dirs) ELSE DirEntries[d].dirs
ListFiles(d) ==
    LET present == SelectSeq(DirEntries[d].files,
                             LAMBDA n : fs[Append(d, n)].kind # "absent")
    IN  IF listRev THEN Reverse(present) ELSE present

\* os.path.join(root, name)
Join(root, name) ==
    IF root[Len(root)] = "" THEN [root EXCEPT ![Len(root)] = name]
    ELSE Append(root, name)

\* str.startswith for a prefix that ends in "/" (every excluded prefix does)
StartsWith(path, prefix) ==
    /\ Len(path) >= Len(prefix)
    /\ \A i \in 1..(Len(prefix) - 1) : path[i] = prefix[i]
    /\ prefix[Len(prefix)] = "" \/ path[Len(prefix)] = prefix[Len(prefix)]

is_excluded_path(path) ==
    \E i \in DOMAIN EXCLUDED_DIRECTORIES : StartsWith(path, EXCLUDED_DIRECTORIES[i])

\* os.path.islink
islink(path) == Phys(path) \in FileIds /\ fs[Phys(path)].kind = "link"

\* the file stat() reaches: a symbolic link is followed
Resolve(path) == IF islink(path) THEN LinkTarget(Phys(path)) ELSE Phys(path)

\* os.path.getsize succeeds (no FileNotFoundError)
CanStat(path) == Resolve(path) \in FileIds /\ fs[Resolve(path)].kind = "file"
getsize(path) == fs[Resolve(path)].size

\* get_file_time: the time of the file, or None
get_file_time(path) ==
    IF CanStat(path) THEN [ok |-> TRUE, time |-> fs[Resolve(path)].time]
    ELSE [ok |-> FALSE, time |-> 0]

\* os.walk(top, followlinks=False), top-down: a sequence of (root, dirs, files)
RECURSIVE WalkFrom(_, _)
RECURSIVE WalkDirs(_, _, _)
WalkDirs(root, names, i) ==
    IF i > Len(names) THEN <<>>
    ELSE WalkFrom(Join(root, names[i]), Append(Phys(root), names[i]))
         \o WalkDirs(root, names, i + 1)
WalkFrom(root, d) ==
    << [root |-> root, dirs |-> ListDirs(d), files |-> ListFiles(d)] >>
    \o WalkDirs(root, ListDirs(d), 1)
Walk(top) == IF Phys(top) \in DOMAIN DirEntries THEN WalkFrom(top, Phys(top)) ELSE <<>>

----------------------------------------------------------------------------
(* get_directory_info.  A record carries, beside the four fields of the    *)
(* script, the auxiliary field srcs: the files whose sizes were added.     *)

NoEnd == [given |-> FALSE, date |-> 0]

\* the window test of the direct-file scan
InWindow(file_time, start, end) ==
    IF end.given THEN start <= file_time /\ file_time < end.date
    ELSE file_time >= start

\* the loop over the direct files of root
RECURSIVE ScanFiles(_, _, _, _, _, _)
ScanFiles(root, files, i, start, end, acc) ==
    IF i > Len(files) THEN acc
    ELSE LET filepath == Join(root, files[i])
             file_time == get_file_time(filepath)
             hit == /\ ~(is_excluded_path(filepath) \/ islink(filepath))
                    /\ file_time.ok
                    /\ InWindow(file_time.time, start, end)
         IN  ScanFiles(root, files, i + 1, start, end,
                 IF hit THEN [count |-> acc.count + 1,
                              size  |-> acc.size + getsize(filepath),
                              srcs  |-> acc.srcs \cup {Resolve(filepath)}]
                 ELSE acc)

\* the re-walk of one subdirectory: every file that is not excluded and
\* whose size can be read is added to the running total
RECURSIVE AddFiles(_, _, _, _)
AddFiles(subroot, subfiles, i, acc) ==
    IF i > Len(subfiles) THEN acc
    ELSE LET subfile_path == Join(subroot, subfiles[i])
         IN  AddFiles(subroot, subfiles, i + 1,
                 IF ~is_excluded_path(subfile_path) /\ CanStat(subfile_path)
                 THEN [total |-> acc.total + getsize(subfile_path),
                       srcs  |-> acc.srcs \cup {Resolve(subfile_path)}]
                 ELSE acc)

RECURSIVE AddWalk(_, _, _)
AddWalk(w, i, acc) ==
    IF i > Len(w) THEN acc
    ELSE AddWalk(w, i + 1, AddFiles(w[i].root, w[i].files, 1, acc))

\* the loop over dirs: it stops at the first subdirectory after which the
\* running total is positive
RECURSIVE RollupFrom(_, _, _, _)
RollupFrom(root, dirs, i, acc) ==
    IF i > Len(dirs) THEN [found |-> FALSE, total |-> acc.total, srcs |-> acc.srcs]
    ELSE LET after == AddWalk(Walk(Join(root, dirs[i])), 1, acc)
         IN  IF after.total > 0
             THEN [found |-> TRUE, total |-> after.total, srcs |-> after.srcs]
             ELSE RollupFrom(root, dirs, i + 1, after)

\* what one visited directory adds to dir_info
VisitDir(info, w, start, end) ==
    IF is_excluded_path(w.root) THEN info
    ELSE LET local == ScanFiles(w.root, w.files, 1, start, end,
                                [count |-> 0, size |-> 0, srcs |-> {}])
             up == RollupFrom(w.root, w.dirs, 1, [total |-> 0, srcs |-> {}])
         IN  IF local.count > 0 \/ local.size > 0
             THEN (w.root :> [count |-> local.count, size |-> local.size,
                              dir_count |-> Len(w.dirs),
                              file_count |-> local.count,
                              srcs |-> local.srcs]) @@ info
             ELSE IF Len(w.dirs) > 0 /\ up.found
             THEN (w.root :> [count |-> local.count, size |-> up.total,
                              dir_count |-> Len(w.dirs),
                              file_count |-> local.count,
                              srcs |-> up.srcs]) @@ info
             ELSE info

RECURSIVE VisitWalk(_, _, _, _, _)
VisitWalk(info, w, i, start, end) ==
    IF i > Len(w) THEN info
    ELSE VisitWalk(VisitDir(info, w[i], start, end), w, i + 1, start, end)

RECURSIVE ScanBases(_, _, _, _, _)
ScanBases(info, base_paths, i, start, end) ==
    IF i > Len(base_paths) THEN info
    ELSE ScanBases(VisitWalk(info, Walk(base_paths[i]), 1, start, end),
                   base_paths, i + 1, start, end)

\* dir_info as get_directory_info holds it before the summary
DirInfo(start, end, base_paths) == ScanBases(<<>>, base_paths, 1, start, end)

----------------------------------------------------------------------------
(* summarize_directories *)

\* "/".join(path.split("/")[:-2]); joining no segment gives the empty string
GroupKey(path) ==
    LET q == SubSeq(path, 1, Len(path) - 2)
    IN  IF q = <<>> THEN <<"">> ELSE q

RECURSIVE SumOver(_, _, _)
SumOver(info, paths, field) ==
    IF paths = {} THEN 0
    ELSE LET p == CHOOSE x \in paths : TRUE
         IN  info[p][field] + SumOver(info, paths \ {p}, field)

summarize_directories(info) ==
    LET keys == {GroupKey(p) : p \in DOMAIN info}
        members(k) == {p \in DOMAIN info : GroupKey(p) = k}
    IN  [k \in keys |->
            [count      |-> SumOver(info, members(k), "count"),
             size       |-> SumOver(info, members(k), "size"),
             dir_count  |-> SumOver(info, members(k), "dir_count"),
             file_count |-> SumOver(info, members(k), "file_count"),
             srcs       |-> UNION {info[p].srcs : p \in members(k)}]]

get_directory_info(start, end, base_paths) ==
    summarize_directories(DirInfo(start, end, base_paths))

----------------------------------------------------------------------------
(* list_directory_info *)

\* the segment names of the model in string order
SegNames == <<"", ".cache", "a", "b", "c", "d", "k", "root">>
SegRank(s) == CHOOSE i \in DOMAIN SegNames : SegNames[i] = s

\* string order of two paths (no segment of the model is a proper prefix of
\* another, so it is the lexicographic order of the segments)
RECURSIVE PathLessFrom(_, _, _)
PathLessFrom(p, q, i) ==
    IF i > Len(p) THEN i <= Len(q)
    ELSE IF i > Len(q) THEN FALSE
    ELSE IF p[i] = q[i] THEN PathLessFrom(p, q, i + 1)
    ELSE SegRank(p[i]) < SegRank(q[i])
PathLess(p, q) == PathLessFrom(p, q, 1)

\* sorted(dir_info.items()): the keys in string order
RECURSIVE SortedKeys(_)
SortedKeys(S) ==
    IF S = {} THEN <<>>
    ELSE LET m == CHOOSE x \in S : \A y \in S : x = y \/ PathLess(x, y)
         IN  <<m>> \o SortedKeys(S \ {m})

\* Listed without the test for a blank path
ListedAnyPath(dir_path, info) == info.file_count > 0

\* the test that decides whether a group is printed and numbered
Listed(dir_path, info) == dir_path # <<"">> /\ info.file_count > 0

RECURSIVE ListFrom(_, _, _, _)
ListFrom(info, keys, i, acc) ==
    IF i > Len(keys) THEN acc
    ELSE ListFrom(info, keys, i + 1,
            IF Listed(keys[i], info[keys[i]])
            THEN [numbered_dirs |-> Append(acc.numbered_dirs, keys[i]),
                  printed |-> Append(acc.printed,
                                     [num |-> acc.display_count, path |-> keys[i]]),
                  display_count |-> acc.display_count + 1]
            ELSE acc)

list_directory_info(info, start_number) ==
    ListFrom(info, SortedKeys(DOMAIN info), 1,
             [numbered_dirs |-> <<>>, printed |-> <<>>,
              display_count |-> start_number])

----------------------------------------------------------------------------
(* The index prompt of main *)

Digit(n) == [digit |-> TRUE, word |-> "", val |-> n]
Word(w) == [digit |-> FALSE, word |-> w, val |-> 0]

\* the tokens of an answer, lower-cased: integers, ALL, NONE, anything else
Tokens == {Digit(n) : n \in 0..MaxIndex} \cup {Word("all"), Word("none"), Word("x")}
Answers == UNION {[1..n -> Tokens] : n \in 0..MaxTokens}

Range(s) == {s[i] : i \in DOMAIN s}

\* selected_dirs as the NONE / ALL / isdigit branches leave it, for a list of n
ParseSelection(tokens, n) ==
    IF \E i \in DOMAIN tokens : tokens[i].word = "none"
    THEN [word |-> "none", sel |-> <<>>]
    ELSE IF \E i \in DOMAIN tokens : tokens[i].word = "all"
    THEN [word |-> "all", sel |-> [i \in 1..n |-> i]]
    ELSE LET digits == SelectSeq(tokens, LAMBDA t : t.digit)
         IN  [word |-> "ints", sel |-> [i \in 1..Len(digits) |-> digits[i].val]]

\* list[idx] of Python: a negative idx counts from the end
IndexOk(list, idx) == -Len(list) <= idx /\ idx < Len(list)
GetItem(list, idx) == IF idx >= 0 THEN list[idx + 1] ELSE list[Len(list) + idx + 1]

\* [dirs[i-1] for i in selected_dirs]
SelectChosen(dirs, sel) ==
    [ok  |-> \A j \in DOMAIN sel : IndexOk(dirs, sel[j] - 1),
     val |-> [j \in DOMAIN sel |->
                 IF IndexOk(dirs, sel[j] - 1) THEN GetItem(dirs, sel[j] - 1)
                 ELSE <<>>]]

\* [dirs[i-1] for i in range(1, len(dirs) + 1) if i not in selected_dirs]
IgnoreChosen(dirs, sel) ==
    LET kept == SelectSeq([i \in 1..Len(dirs) |-> i], LAMBDA i : i \notin Range(sel))
    IN  [ok |-> TRUE, val |-> [j \in DOMAIN kept |-> dirs[kept[j]]]]

ResolveSelection(act, dirs, sel) ==
    IF act = "s" THEN SelectChosen(dirs, sel) ELSE IgnoreChosen(dirs, sel)

----------------------------------------------------------------------------
(* The size total, the free-space check and the manifest *)

\* sum(mapping[p]['size'] for p in paths if p in mapping)
RECURSIVE SizeIn(_, _, _)
SizeIn(mapping, paths, i) ==
    IF i > Len(paths) THEN 0
    ELSE (IF paths[i] \in DOMAIN mapping THEN mapping[paths[i]].size ELSE 0)
         + SizeIn(mapping, paths, i + 1)

TotalSize(prio, nonprio, paths) == SizeIn(prio, paths, 1) + SizeIn(nonprio, paths, 1)

\* check_disk_space reporting space whatever is free
check_disk_space_always(required_space, free) == TRUE

check_disk_space(required_space, free) == free >= required_space

\* total_size > free_space * 0.25
NeedsWarning(total, free) == 4 * total > free

\* the files of one visited directory that are written to filelist.txt
ManifestLine(filepath) == ~is_excluded_path(filepath)

RECURSIVE ManifestFiles(_, _, _)
ManifestFiles(root, files, i) ==
    IF i > Len(files) THEN <<>>
    ELSE (IF ManifestLine(Join(root, files[i])) THEN << Join(root, files[i]) >> ELSE <<>>)
         \o ManifestFiles(root, files, i + 1)

RECURSIVE ManifestWalk(_, _)
ManifestWalk(w, i) ==
    IF i > Len(w) THEN <<>>
    ELSE ManifestFiles(w[i].root, w[i].files, 1) \o ManifestWalk(w, i + 1)

RECURSIVE WriteManifest(_, _)
WriteManifest(paths, i) ==
    IF i > Len(paths) THEN <<>>
    ELSE ManifestWalk(Walk(paths[i]), 1) \o WriteManifest(paths, i + 1)

----------------------------------------------------------------------------
(* main: one action per prompt or blocking call *)

Init ==
    /\ fs \in FileSystems
    /\ listRev \in BOOLEAN
    /\ pc = "date"
    /\ outcome = ""
    /\ start_date = 0
    /\ dir_info = <<>>
    /\ priority_files = <<>>
    /\ non_priority_files = <<>>
    /\ new_dirs = <<>>
    /\ additional_dirs = <<>>
    /\ shown = <<>>
    /\ action = ""
    /\ sel_word = ""
    /\ selected_dirs = <<>>
    /\ final_dirs = <<>>
    /\ final_prio = <<>>
    /\ phase2 = FALSE
    /\ total_size = 0
    /\ space_checked = FALSE
    /\ has_space = FALSE
    /\ free_space = 0
    /\ password_asked = FALSE
    /\ manifest = <<>>
    /\ manifest_written = FALSE
    /\ manifest_on_disk = FALSE
    /\ archiver_spawned = FALSE
    /\ returncode = 0

scanVars == <<start_date, dir_info, priority_files, non_priority_files,
              new_dirs, additional_dirs, shown>>
selVars == <<action, sel_word, selected_dirs, final_dirs, final_prio, phase2>>
planVars == <<total_size, space_checked, has_space, free_space, password_asked>>
archiveVars == <<manifest, manifest_written, manifest_on_disk,
                 archiver_spawned, returncode>>

Finish(how) == pc' = "done" /\ outcome' = how

\* the answers of a pass are not read again once main has moved on to the
\* next prompt: the model stops recording them there
Forget == action' = "" /\ sel_word' = "" /\ selected_dirs' = <<>>

\* the date does not parse: the message, and return
DateInvalid ==
    /\ pc = "date"
    /\ Finish("InvalidDate")
    /\ UNCHANGED <<fs, listRev, scanVars, selVars, planVars, archiveVars>>

\* the date parses: the priority scan and its list
DateValid ==
    /\ pc = "date"
    /\ \E d \in 1..MaxDate :
        LET listing == list_directory_info(
                           get_directory_info(d, NoEnd, PRIORITY_DIRECTORIES), 1)
        IN  /\ start_date' = d
            /\ dir_info' = DirInfo(d, NoEnd, PRIORITY_DIRECTORIES)
            /\ priority_files' = get_directory_info(d, NoEnd, PRIORITY_DIRECTORIES)
            /\ new_dirs' = listing.numbered_dirs
            /\ shown' = listing.printed
    /\ pc' = "action1"
    /\ UNCHANGED <<fs, listRev, outcome, non_priority_files, additional_dirs,
                   selVars, planVars, archiveVars>>

\* (S)elect or (I)gnore, in either pass
AskAction ==
    /\ pc \in {"action1", "action2"}
    /\ \E a \in {"s", "i", "x"} :
        /\ action' = a
        /\ IF a \in {"s", "i"}
           THEN pc' = (IF pc = "action1" THEN "select1" ELSE "select2")
                /\ outcome' = outcome
           ELSE Finish("InvalidOption")
    /\ UNCHANGED <<fs, listRev, scanVars, sel_word, selected_dirs, final_dirs,
                   final_prio, phase2, planVars, archiveVars>>

\* the index prompt of the priority pass and the resolution of its answer
SelectPriority ==
    /\ pc = "select1"
    /\ \E tokens \in Answers :
        LET parsed == ParseSelection(tokens, Len(new_dirs))
            res == ResolveSelection(action, new_dirs, parsed.sel)
        IN  /\ sel_word' = parsed.word
            /\ selected_dirs' = parsed.sel
            /\ IF res.ok
               THEN /\ final_dirs' = res.val
                    /\ final_prio' = res.val
                    /\ pc' = "proceed"
                    /\ outcome' = outcome
               ELSE /\ pc' = "crashed"
                    /\ outcome' = "IndexError"
                    /\ UNCHANGED <<final_dirs, final_prio>>
    /\ UNCHANGED <<fs, listRev, scanVars, action, phase2, planVars, archiveVars>>

\* "search non-priority directories as well?": no, and the total
ProceedNo ==
    /\ pc = "proceed"
    /\ total_size' = TotalSize(priority_files, non_priority_files, final_dirs)
    /\ pc' = "confirm"
    /\ Forget
    /\ UNCHANGED <<fs, listRev, outcome, scanVars, final_dirs, final_prio, phase2,
                   space_checked, has_space, free_space, password_asked,
                   archiveVars>>

\* yes: the additional scan and its list, numbered from len(final_dirs) + 1
ProceedYes ==
    /\ pc = "proceed"
    /\ LET found == get_directory_info(start_date, NoEnd, TARGET_DIRECTORIES)
           listing == list_directory_info(found, Len(final_dirs) + 1)
       IN  /\ dir_info' = DirInfo(start_date, NoEnd, TARGET_DIRECTORIES)
           /\ non_priority_files' = found
           /\ additional_dirs' = listing.numbered_dirs
           /\ shown' = listing.printed
    /\ pc' = "action2"
    /\ Forget
    /\ UNCHANGED <<fs, listRev, outcome, start_date, priority_files, new_dirs,
                   final_dirs, final_prio, phase2, planVars, archiveVars>>

\* the index prompt of the additional pass, its resolution, and the total
SelectAdditional ==
    /\ pc = "select2"
    /\ \E tokens \in Answers :
        LET parsed == ParseSelection(tokens, Len(additional_dirs))
            res == ResolveSelection(action, additional_dirs, parsed.sel)
        IN  /\ sel_word' = parsed.word
            /\ selected_dirs' = parsed.sel
            /\ IF res.ok
               THEN /\ final_dirs' = final_dirs \o res.val
                    /\ phase2' = TRUE
                    /\ total_size' = TotalSize(priority_files, non_priority_files,
                                               final_dirs \o res.val)
                    /\ pc' = "confirm"
                    /\ outcome' = outcome
               ELSE /\ pc' = "crashed"
                    /\ outcome' = "IndexError"
                    /\ UNCHANGED <<final_dirs, phase2, total_size>>
    /\ UNCHANGED <<fs, listRev, scanVars, action, final_prio, space_checked,
                   has_space, free_space, password_asked, archiveVars>>

\* "proceed with archiving?": no
ConfirmNo ==
    /\ pc = "confirm"
    /\ Finish("Canceled")
    /\ Forget
    /\ UNCHANGED <<fs, listRev, scanVars, final_dirs, final_prio, phase2,
                   planVars, archiveVars>>

\* yes: the free-space check
ConfirmYes ==
    /\ pc = "confirm"
    /\ \E free \in {0, FreeSmall, FreeLarge} :
        /\ space_checked' = TRUE
        /\ free_space' = free
        /\ has_space' = check_disk_space(total_size, free)
        /\ IF ~check_disk_space(total_size, free) THEN Finish("InsufficientSpace")
           ELSE IF NeedsWarning(total_size, free)
                THEN pc' = "warn" /\ outcome' = outcome
                ELSE pc' = "password" /\ outcome' = outcome
    /\ Forget
    /\ UNCHANGED <<fs, listRev, scanVars, final_dirs, final_prio, phase2,
                   total_size, password_asked, archiveVars>>

\* the 25% warning
WarnNo ==
    /\ pc = "warn"
    /\ Finish("Declined")
    /\ UNCHANGED <<fs, listRev, scanVars, selVars, planVars, archiveVars>>

WarnYes ==
    /\ pc = "warn"
    /\ pc' = "password"
    /\ UNCHANGED <<fs, listRev, outcome, scanVars, selVars, planVars, archiveVars>>

\* the password prompt, then filelist.txt is written
Password ==
    /\ pc = "password"
    /\ password_asked' = TRUE
    /\ manifest' = WriteManifest(final_dirs, 1)
    /\ manifest_written' = TRUE
    /\ manifest_on_disk' = TRUE
    /\ pc' = "spawn"
    /\ UNCHANGED <<fs, listRev, outcome, scanVars, selVars, total_size,
                   space_checked, has_space, free_space, archiver_spawned,
                   returncode>>

\* subprocess.run starts 7z and waits for it
SpawnArchiver ==
    /\ pc = "spawn"
    /\ archiver_spawned' = TRUE
    /\ pc' = "archiving"
    /\ UNCHANGED <<fs, listRev, outcome, scanVars, selVars, planVars, manifest,
                   manifest_written, manifest_on_disk, returncode>>

\* 7z exits; the message, and os.remove("filelist.txt")
ArchiverExit ==
    /\ pc = "archiving"
    /\ \E rc \in {0, 1} :
        /\ returncode' = rc
        /\ Finish(IF rc = 0 THEN "Archived" ELSE "ArchiverFailure")
    /\ manifest_on_disk' = FALSE
    /\ UNCHANGED <<fs, listRev, scanVars, selVars, planVars, manifest,
                   manifest_written, archiver_spawned>>

\* SIGINT: signal_handler prints and calls sys.exit(0)
Interrupt ==
    /\ pc \notin {"done", "crashed", "exited"}
    /\ pc' = "exited"
    /\ outcome' = "Interrupted"
    /\ UNCHANGED <<fs, listRev, scanVars, selVars, planVars, archiveVars>>

Next ==
    \/ DateInvalid
    \/ DateValid
    \/ AskAction
    \/ SelectPriority
    \/ ProceedNo
    \/ ProceedYes
    \/ SelectAdditional
    \/ ConfirmNo
    \/ ConfirmYes
    \/ WarnNo
    \/ WarnYes
    \/ Password
    \/ SpawnArchiver
    \/ ArchiverExit
    \/ Interrupt

Spec == Init /\ [][Next]_vars

----------------------------------------------------------------------------
(* What the filesystem holds, stated without the scan *)

AbsPath(f) == <<"">> \o f
IsPrefix(d, f) == Len(d) <= Len(f) /\ SubSeq(f, 1, Len(d)) = d

\* the files of a set that are regular files outside every excluded prefix
PlainFiles(S) == {f \in S : fs[f].kind = "file" /\ ~is_excluded_path(AbsPath(f))}

\* the files directly in directory d, and those in its subdirectories
DirectFiles(d) == {f \in FileIds : IsPrefix(d, f) /\ Len(f) = Len(d) + 1}
DeeperFiles(d) == {f \in FileIds : IsPrefix(d, f) /\ Len(f) > Len(d) + 1}

RECURSIVE SizeSum(_)
SizeSum(S) ==
    IF S = {} THEN 0
    ELSE LET f == CHOOSE x \in S : TRUE IN fs[f].size + SizeSum(S \ {f})

\* the roots of the latest scan
ScannedBases == IF pc = "action1" THEN PRIORITY_DIRECTORIES ELSE TARGET_DIRECTORIES
RECURSIVE VisitedRoots(_, _)
VisitedRoots(base_paths, i) ==
    IF i > Len(base_paths) THEN {}
    ELSE {w.root : w \in Range(Walk(base_paths[i]))} \cup VisitedRoots(base_paths, i + 1)

AdditionalListed == DOMAIN non_priority_files # {}
AnswerLive == pc = "proceed" \/ (pc = "confirm" /\ phase2)
LiveList == IF pc = "proceed" THEN new_dirs ELSE additional_dirs
Added == SubSeq(final_dirs, Len(final_prio) + 1, Len(final_dirs))
LiveResult == IF pc = "proceed" THEN final_dirs ELSE Added

----------------------------------------------------------------------------
(* The claims *)

\* C1: right after a scan, every visited directory D that is not excluded
\* and has no matching direct file has a record iff the sizes of the plain
\* (not excluded, not symbolic link) files in D's subdirectories sum to a
\* nonzero S, and then its count is 0 and its size is S.
C1_RollupIsSubtreeTotal ==
    pc \in {"action1", "action2"} =>
        \A D \in VisitedRoots(ScannedBases, 1) :
            LET d == Phys(D)
                matches == {f \in PlainFiles(DirectFiles(d)) : fs[f].time >= start_date}
                S == SizeSum(PlainFiles(DeeperFiles(d)))
            IN  (~is_excluded_path(D) /\ matches = {}) =>
                    /\ (D \in DOMAIN dir_info) <=> (S # 0)
                    /\ (D \in DOMAIN dir_info) =>
                           (dir_info[D].count = 0 /\ dir_info[D].size = S)

\* C2: in what get_directory_info returns, no record is keyed by a directory
\* under an excluded prefix and no file under an excluded prefix has added
\* to the count or the size of a record.
C2_NothingFromExcluded ==
    \A m \in {priority_files, non_priority_files} :
        \A g \in DOMAIN m :
            /\ ~is_excluded_path(Append(g, ""))
            /\ \A f \in m[g].srcs : ~is_excluded_path(AbsPath(f))

\* the answer with the indices outside 1..n left out, resolved
InRange(sel, n) == SelectSeq(sel, LAMBDA i : 1 <= i /\ i <= n)
DroppedResolve(act, dirs, sel) ==
    IF act = "s"
    THEN {dirs[i] : i \in Range(InRange(sel, Len(dirs)))}
    ELSE {dirs[i] : i \in (1..Len(dirs)) \ Range(sel)}

\* C3: in both modes and both passes an index outside 1..N is dropped: the
\* paths resolved are those of the in-range indices alone, and no error is
\* raised.
C3_OutOfRangeDropped ==
    /\ pc # "crashed"
    /\ AnswerLive => Range(LiveResult) = DroppedResolve(action, LiveList, selected_dirs)

\* C4: for the displayed list and the indices entered, the set IGNORE mode
\* gives is the displayed list minus the set SELECT mode gives.
C4_IgnoreIsComplement ==
    ((AnswerLive \/ pc = "crashed") /\ sel_word = "ints") =>
        LET L == IF pc = "crashed" /\ ~AdditionalListed THEN new_dirs ELSE LiveList
            chosen == ResolveSelection("s", L, selected_dirs)
            ignored == ResolveSelection("i", L, selected_dirs)
        IN  /\ chosen.ok
            /\ Range(ignored.val) = Range(L) \ Range(chosen.val)

\* a list holds exactly the groups that satisfy Shown, in path order
ListsExactly(list, info, Shown(_, _)) ==
    /\ Range(list) = {g \in DOMAIN info : Shown(g, info[g])}
    /\ \A i, j \in DOMAIN list : i < j => PathLess(list[i], list[j])
NumberedFrom(list, printed, k) ==
    /\ Len(printed) = Len(list)
    /\ \A i \in DOMAIN list : printed[i] = [num |-> k + i - 1, path |-> list[i]]

NonZeroCount(g, info) == info.file_count > 0
NonBlankNonZero(g, info) == g # <<"">> /\ info.file_count > 0

\* C5 as stated: the list holds exactly the groups whose matched file count
\* is nonzero, in path order, numbered k, k+1, ...
C5_ListsEveryNonZeroGroup ==
    start_date > 0 =>
        /\ ListsExactly(new_dirs, priority_files, NonZeroCount)
        /\ AdditionalListed =>
               ListsExactly(additional_dirs, non_priority_files, NonZeroCount)

\* C5 amended: the list holds exactly the groups whose path is not the
\* empty string and whose matched file count is nonzero, in path order,
\* numbered k, k+1, ... without gaps.
C5_ListsNonBlankNonZeroGroups ==
    start_date > 0 =>
        /\ ListsExactly(new_dirs, priority_files, NonBlankNonZero)
        /\ ~AdditionalListed => NumberedFrom(new_dirs, shown, 1)
        /\ AdditionalListed =>
               /\ ListsExactly(additional_dirs, non_priority_files, NonBlankNonZero)
               /\ NumberedFrom(additional_dirs, shown, Len(final_prio) + 1)

\* C5 witness: the additional list is shown from a number above 1, while the
\* group of the empty path has matches and is not shown
C5_Witness ==
    /\ pc = "action2"
    /\ Len(final_prio) >= 1
    /\ Len(additional_dirs) >= 1
    /\ <<"">> \in DOMAIN non_priority_files
    /\ non_priority_files[<<"">>].file_count > 0
    /\ \E g \in DOMAIN priority_files : g # <<"">> /\ priority_files[g].file_count = 0

\* one size per path: the priority mapping first, else the additional one
SizeOnce(p) ==
    IF p \in DOMAIN priority_files THEN priority_files[p].size
    ELSE IF p \in DOMAIN non_priority_files THEN non_priority_files[p].size
    ELSE 0
RECURSIVE SumOnce(_)
SumOnce(S) ==
    IF S = {} THEN 0
    ELSE LET p == CHOOSE x \in S : TRUE IN SizeOnce(p) + SumOnce(S \ {p})

\* C6: the total is the sum, over the distinct paths of the final set, of
\* one size per path.
C6_TotalCountsEachPathOnce ==
    pc = "confirm" => total_size = SumOnce(Range(final_dirs))

\* C7: when the free-space check finds the total above the free space, the
\* run ends with the insufficient-space outcome, no password is asked for
\* and 7z is not started; 7z is started, and the password asked for, only
\* after the check has passed.
C7_NoArchiveWithoutSpace ==
    /\ (space_checked /\ total_size > free_space) =>
           /\ pc = "done" /\ outcome = "InsufficientSpace"
           /\ ~password_asked /\ ~manifest_written /\ ~archiver_spawned
    /\ (password_asked \/ archiver_spawned) =>
           (space_checked /\ has_space /\ free_space >= total_size)

\* C7 witness: a run that selected something and ended for lack of space
C7_Witness ==
    /\ pc = "done" /\ outcome = "InsufficientSpace"
    /\ free_space > 0 /\ total_size > free_space
    /\ final_dirs # <<>>

\* C8: the manifest holds exactly the plain (not excluded, not symbolic
\* link) files beneath the selected roots.
C8_ManifestIsPlainFiles ==
    manifest_written =>
        Range(manifest) =
            {AbsPath(f) : f \in PlainFiles({x \in FileIds :
                \E r \in Range(final_dirs) : IsPrefix(Phys(r), x)})}

\* C9: once filelist.txt has been written, however the run ends, the file
\* is no longer on disk.
C9_ManifestRemoved ==
    (manifest_written /\ pc \in {"done", "exited", "crashed"}) => ~manifest_on_disk

ShownNumbers == {shown[j].num : j \in DOMAIN shown}
PathsNumbered(N) == {shown[j].path : j \in {x \in DOMAIN shown : shown[x].num \in N}}

\* C10: the additional list is numbered from len(final set) + 1, and the
\* numbers printed with its groups, typed at its prompt, act on the groups
\* they were printed with: SELECT adds exactly those groups, IGNORE leaves
\* out exactly those groups, and the run goes on.
C10_TypedNumberIsShownNumber ==
    /\ (AdditionalListed /\ shown # <<>>) => shown[1].num = Len(final_prio) + 1
    /\ (pc = "confirm" /\ phase2 /\ sel_word = "ints"
            /\ Range(selected_dirs) \subseteq ShownNumbers) =>
           Range(Added) =
               IF action = "s" THEN PathsNumbered(Range(selected_dirs))
               ELSE PathsNumbered(ShownNumbers \ Range(selected_dirs))
    /\ (pc = "crashed" /\ AdditionalListed) =>
           ~(Range(selected_dirs) \subseteq ShownNumbers)

====
